---- MODULE Spec2Model ----
(***************************************************************************)
(* Model of the voice-library backend: the model/hardware query service    *)
(* (model_fetch.py), the model-hub scraper (model_info.py) and the audio   *)
(* file server (audio_api.py).                                             *)
(*                                                                         *)
(* Text values that are searched or compared character by character are    *)
(* sequences of one-character strings (<<"a","b">> is "ab").  A nullable   *)
(* value is None or Some(v).  A table is the sequence of its rows in the   *)
(* order the store returns them.                                           *)
(***************************************************************************)
EXTENDS Integers, Sequences, FiniteSets, TLC

VARIABLES models, hardware, resp,
          urls, idx, pc, model_id, model_info, csv, upserted,
          file, apc, handle, chunks, aresp

storeVars   == <<models, hardware>>
queryVars   == <<resp>>
scraperVars == <<urls, idx, pc, model_id, model_info, csv, upserted>>
audioVars   == <<file, apc, handle, chunks, aresp>>
vars == <<models, hardware, resp,
          urls, idx, pc, model_id, model_info, csv, upserted,
          file, apc, handle, chunks, aresp>>

\* ---------------------------------------------------------------- bounds
MaxRows   == 2      \* rows per table
MaxIds    == 2      \* ids in one batch request
MaxLimit  == 2      \* largest page size requested
MaxOffset == 1      \* largest offset requested
MaxUrls   == 2      \* urls handed to one scraper run
MaxSharedUrls  == 1 \* urls of a scraper run that shares the store with the service
MaxFullChunks  == 3 \* whole 64KB windows in the audio file
MaxVersions    == 2 \* contents the audio file takes over time

\* ------------------------------------------------------------- utilities
Min(a, b) == IF a < b THEN a ELSE b
Max(a, b) == IF a > b THEN a ELSE b

None    == [some |-> FALSE]
Some(v) == [some |-> TRUE, val |-> v]

\* the sequences of at most n elements of S
RECURSIVE SeqsUpTo(_, _)
SeqsUpTo(S, n) ==
  IF n = 0 THEN {<<>>} ELSE SeqsUpTo(S, n - 1) \cup [1..n -> S]

\* --------------------------------------------------- the store's contents
\* rows the models table may hold (model_id is its conflict key)
ModelRowPool ==
  { [model_id |-> <<"a", "b">>, author |-> <<"m">>, downloads |-> 5],
    [model_id |-> <<"A", "_">>, author |-> <<"m">>, downloads |-> 0],
    [model_id |-> <<"b">>,      author |-> <<"g">>, downloads |-> 5] }

\* rows the hardware table may hold (HardwareBase: manufacturer and memory
\* are nullable, type is not)
HardwareRowPool ==
  { [name |-> "h1", type |-> "GPU", manufacturer |-> Some("NVIDIA"), memory |-> Some(32)],
    [name |-> "h2", type |-> "GPU", manufacturer |-> None,           memory |-> None],
    [name |-> "h3", type |-> "CPU", manufacturer |-> Some("AMD"),    memory |-> Some(0)] }

UniqueKey(rows) ==
  \A i, j \in DOMAIN rows : rows[i].model_id = rows[j].model_id => i = j

NoRepeat(rows) == \A i, j \in DOMAIN rows : rows[i] = rows[j] => i = j

ModelTables(n)    == {t \in SeqsUpTo(ModelRowPool, n) : UniqueKey(t)}
HardwareTables(n) == {t \in SeqsUpTo(HardwareRowPool, n) : NoRepeat(t)}

\* ------------------------------------------------------ request inputs
IdPool     == {<<"a", "b">>, <<"b">>, <<"z">>}
AuthorArgs == {None, Some(<<>>), Some(<<"m">>), Some(<<"g">>)}
TypeArgs   == {None, Some(""), Some("GPU")}
ManufArgs  == {None, Some("NVIDIA")}
MemoryArgs == {None, Some(0), Some(16)}
Queries    == {<<>>, <<"B">>, <<"_">>, <<"%">>, <<"b", "a">>}
Fields     == {"model_id", "author", "nosuchcolumn"}
ModelColumns == {"model_id", "author"}
Limits     == 1..MaxLimit
Offsets    == 0..MaxOffset

\* ------------------------------------------- the table client's filters
\* .eq(col, v)
Eq(rows, col, v) == SelectSeq(rows, LAMBDA r : r[col] = v)

\* .gte(col, m) on a nullable integer column: NULL satisfies no comparison
Gte(rows, col, m) == SelectSeq(rows, LAMBDA r : r[col].some /\ r[col].val >= m)

\* .in_(col, vals)
In_(rows, col, vals) ==
  SelectSeq(rows, LAMBDA r : \E i \in DOMAIN vals : vals[i] = r[col])

Lower(c) == IF c = "A" THEN "a" ELSE IF c = "B" THEN "b" ELSE c

\* SQL LIKE on lower-cased text: % matches any run, _ matches one character
RECURSIVE LikeMatch(_, _)
LikeMatch(p, s) ==
  IF p = <<>> THEN s = <<>>
  ELSE IF Head(p) = "%"
       THEN LikeMatch(Tail(p), s) \/ (s # <<>> /\ LikeMatch(p, Tail(s)))
       ELSE /\ s # <<>>
            /\ (Head(p) = "_" \/ Lower(Head(p)) = Lower(Head(s)))
            /\ LikeMatch(Tail(p), Tail(s))

\* .ilike(col, pattern)
Ilike(rows, col, pattern) == SelectSeq(rows, LAMBDA r : LikeMatch(pattern, r[col]))

\* Range with `to` taken as an exclusive end
RangeEndExclusive(rows, from, to) == SubSeq(rows, from + 1, Min(to, Len(rows)))

\* .range(from, to): the rows at 0-based positions from..to, both inclusive
Range(rows, from, to) == SubSeq(rows, from + 1, Min(to + 1, Len(rows)))

\* Python truthiness of an optional str / int argument
TruthyStr(o) == o.some /\ o.val # ""
TruthySeq(o) == o.some /\ o.val # <<>>
TruthyInt(o) == o.some /\ o.val # 0

\* --------------------------------------------- query service: handlers
\* GET /model/{model_id}
GetModelInfoResp(table, id, dbOk) ==
  LET data == Eq(table, "model_id", id)
      req  == [model_id |-> id]
  IN  IF ~dbOk
      THEN [op |-> "get_model_info", req |-> req, status |-> 500,
            detail |-> <<"db error">>]
      ELSE IF data = <<>>
      \* the HTTPException(404) is raised inside the try block and caught by
      \* `except Exception`, which answers 500 with str(e) as the detail
      THEN [op |-> "get_model_info", req |-> req, status |-> 500,
            detail |-> <<"404: Model ", id, " not found">>]
      ELSE [op |-> "get_model_info", req |-> req, status |-> 200,
            body |-> data[1]]

\* the query list_models builds before .range()
ModelsQuery(table, author) ==
  IF TruthySeq(author) THEN Eq(table, "author", author.val) ELSE table

\* GET /models
ListModelsResp(table, author, limit, offset, dbOk) ==
  LET data == Range(ModelsQuery(table, author), offset, offset + limit - 1)
      req  == [author |-> author, limit |-> limit, offset |-> offset]
  IN  IF ~dbOk
      THEN [op |-> "list_models", req |-> req, status |-> 500,
            detail |-> <<"Failed to fetch models: Database query failed">>]
      ELSE [op |-> "list_models", req |-> req, status |-> 200,
            body |-> [models |-> data, count |-> Len(data),
                      offset |-> offset, limit |-> limit]]

\* the query search_models builds before .range()
SearchQuery(table, q, field) == Ilike(table, field, <<"%">> \o q \o <<"%">>)

\* GET /search
SearchModelsResp(table, q, field, limit, offset, dbOk) ==
  LET req == [q |-> q, field |-> field, limit |-> limit, offset |-> offset]
  IN  IF ~dbOk \/ field \notin ModelColumns
      THEN [op |-> "search_models", req |-> req, status |-> 500,
            detail |-> <<"db error">>]
      ELSE LET data == Range(SearchQuery(table, q, field), offset, offset + limit - 1)
           IN  [op |-> "search_models", req |-> req, status |-> 200,
                body |-> [models |-> data, count |-> Len(data),
                          offset |-> offset, limit |-> limit]]

\* {model["model_id"]: model for model in response.data}: a later row
\* replaces an earlier one under the same key
FoundModels(data) ==
  [k \in {data[i].model_id : i \in DOMAIN data} |->
     data[CHOOSE i \in DOMAIN data :
            /\ data[i].model_id = k
            /\ \A j \in DOMAIN data : data[j].model_id = k => j <= i]]

\* BatchLoop with the found rows collected in the store's order instead of
\* the request's
RECURSIVE BatchLoopStoreOrder(_, _, _, _, _)
BatchLoopStoreOrder(ids, found_models, i, results, not_found) ==
  IF i > Len(ids)
  THEN [results |-> SelectSeq(models, LAMBDA r : \E k \in DOMAIN results : results[k] = r),
        not_found |-> not_found]
  ELSE IF ids[i] \in DOMAIN found_models
       THEN BatchLoopStoreOrder(ids, found_models, i + 1,
                                Append(results, found_models[ids[i]]), not_found)
       ELSE BatchLoopStoreOrder(ids, found_models, i + 1,
                                results, Append(not_found, ids[i]))

\* the loop over model_ids.ids, from position i on
RECURSIVE BatchLoop(_, _, _, _, _)
BatchLoop(ids, found_models, i, results, not_found) ==
  IF i > Len(ids) THEN [results |-> results, not_found |-> not_found]
  ELSE IF ids[i] \in DOMAIN found_models
       THEN BatchLoop(ids, found_models, i + 1,
                      Append(results, found_models[ids[i]]), not_found)
       ELSE BatchLoop(ids, found_models, i + 1,
                      results, Append(not_found, ids[i]))

\* POST /models/batch
GetMultipleModelsResp(table, ids, dbOk) ==
  LET data == In_(table, "model_id", ids)
      out  == BatchLoop(ids, FoundModels(data), 1, <<>>, <<>>)
      req  == [ids |-> ids]
  IN  IF ~dbOk
      THEN [op |-> "get_multiple_models", req |-> req, status |-> 500,
            detail |-> <<"Failed to fetch models">>]
      ELSE [op |-> "get_multiple_models", req |-> req, status |-> 200,
            body |-> [models |-> out.results, count |-> Len(out.results),
                      not_found |-> out.not_found]]

\* the query list_hardware builds before .range()
HardwareQuery(table, type, manufacturer, min_memory) ==
  LET q1 == IF TruthyStr(type) THEN Eq(table, "type", type.val) ELSE table
      q2 == IF TruthyStr(manufacturer)
            THEN Eq(q1, "manufacturer", Some(manufacturer.val)) ELSE q1
      q3 == IF TruthyInt(min_memory)
            THEN Gte(q2, "memory", min_memory.val) ELSE q2
  IN  q3

\* GET /hardware
ListHardwareResp(table, type, manufacturer, min_memory, limit, offset, dbOk) ==
  LET data == Range(HardwareQuery(table, type, manufacturer, min_memory),
                    offset, offset + limit - 1)
      req  == [type |-> type, manufacturer |-> manufacturer,
               min_memory |-> min_memory, limit |-> limit, offset |-> offset]
  IN  IF ~dbOk
      THEN [op |-> "list_hardware", req |-> req, status |-> 500,
            detail |-> <<"db error">>]
      ELSE [op |-> "list_hardware", req |-> req, status |-> 200,
            body |-> [hardware |-> data, count |-> Len(data),
                      offset |-> offset, limit |-> limit]]

\* GET /hardware/types: list(set(...)) has no defined order, so the body is
\* the set
GetHardwareTypesResp(table, dbOk) ==
  IF ~dbOk
  THEN [op |-> "get_hardware_types", status |-> 500, detail |-> <<"db error">>]
  ELSE [op |-> "get_hardware_types", status |-> 200,
        body |-> [types |-> {table[i].type : i \in DOMAIN table}]]

\* GET /hardware/manufacturers
GetManufacturersResp(table, dbOk) ==
  IF ~dbOk
  THEN [op |-> "get_manufacturers", status |-> 500, detail |-> <<"db error">>]
  ELSE [op |-> "get_manufacturers", status |-> 200,
        body |-> [manufacturers |->
                    {table[i].manufacturer.val :
                       i \in {j \in DOMAIN table :
                                /\ table[j].manufacturer.some
                                /\ table[j].manufacturer.val # ""}}]]

\* GET /
ReadRootResp ==
  [op |-> "read_root", status |-> 200,
   body |-> [message |-> "Welcome to Model Info API",
             connection_status |-> "connected"]]

\* --------------------------------------------- query service: actions
ReadRoot ==
  /\ resp' = ReadRootResp
  /\ UNCHANGED <<storeVars, scraperVars, audioVars>>

GetModelInfo(id, dbOk) ==
  /\ resp' = GetModelInfoResp(models, id, dbOk)
  /\ UNCHANGED <<storeVars, scraperVars, audioVars>>

ListModels(author, limit, offset, dbOk) ==
  /\ resp' = ListModelsResp(models, author, limit, offset, dbOk)
  /\ UNCHANGED <<storeVars, scraperVars, audioVars>>

SearchModels(q, field, limit, offset, dbOk) ==
  /\ resp' = SearchModelsResp(models, q, field, limit, offset, dbOk)
  /\ UNCHANGED <<storeVars, scraperVars, audioVars>>

GetMultipleModels(ids, dbOk) ==
  /\ resp' = GetMultipleModelsResp(models, ids, dbOk)
  /\ UNCHANGED <<storeVars, scraperVars, audioVars>>

ListHardware(type, manufacturer, min_memory, limit, offset, dbOk) ==
  /\ resp' = ListHardwareResp(hardware, type, manufacturer, min_memory,
                              limit, offset, dbOk)
  /\ UNCHANGED <<storeVars, scraperVars, audioVars>>

GetHardwareTypes(dbOk) ==
  /\ resp' = GetHardwareTypesResp(hardware, dbOk)
  /\ UNCHANGED <<storeVars, scraperVars, audioVars>>

GetManufacturers(dbOk) ==
  /\ resp' = GetManufacturersResp(hardware, dbOk)
  /\ UNCHANGED <<storeVars, scraperVars, audioVars>>

NoResp == [op |-> "none", status |-> 0]

\* the scraper not running, the audio server idle
ScraperOff ==
  /\ urls = <<>> /\ idx = 1 /\ pc = "off" /\ model_id = <<>>
  /\ model_info = None /\ csv = <<>> /\ upserted = {}

AudioOff ==
  /\ file = [exists |-> FALSE, ver |-> 1, size |-> 0]
  /\ apc = "idle" /\ handle = None
  /\ chunks = <<>> /\ aresp = NoResp

\* no handler reads both tables, so the two vary one at a time
QueryInit ==
  /\ \/ models \in ModelTables(MaxRows) /\ hardware = <<>>
     \/ models = <<>> /\ hardware \in HardwareTables(MaxRows)
  /\ resp = NoResp
  /\ ScraperOff
  /\ AudioOff

QueryNext ==
  \/ ReadRoot
  \/ \E id \in IdPool, dbOk \in BOOLEAN : GetModelInfo(id, dbOk)
  \/ \E author \in AuthorArgs, limit \in Limits, offset \in Offsets,
        dbOk \in BOOLEAN : ListModels(author, limit, offset, dbOk)
  \/ \E q \in Queries, field \in Fields, limit \in Limits, offset \in Offsets,
        dbOk \in BOOLEAN : SearchModels(q, field, limit, offset, dbOk)
  \/ \E ids \in SeqsUpTo(IdPool, MaxIds), dbOk \in BOOLEAN :
        GetMultipleModels(ids, dbOk)
  \/ \E type \in TypeArgs, manufacturer \in ManufArgs, min_memory \in MemoryArgs,
        limit \in Limits, offset \in Offsets, dbOk \in BOOLEAN :
        ListHardware(type, manufacturer, min_memory, limit, offset, dbOk)
  \/ \E dbOk \in BOOLEAN : GetHardwareTypes(dbOk)
  \/ \E dbOk \in BOOLEAN : GetManufacturers(dbOk)

QuerySpec == QueryInit /\ [][QueryNext]_vars

\* ------------------------------------------------ query service: claims
Ok(op) == resp.op = op /\ resp.status = 200

HasRow(id) == \E i \in DOMAIN models : models[i].model_id = id
RowOf(id)  == models[CHOOSE i \in DOMAIN models : models[i].model_id = id]

\* C1: a successful POST /models/batch returns, in request order, the rows
\* of the requested ids that exist and, in request order, the requested ids
\* that do not; each requested id is in exactly one list; count is the
\* number of rows returned.
BatchPreservesRequestOrder ==
  Ok("get_multiple_models") =>
    LET ids     == resp.req.ids
        found   == SelectSeq(ids, HasRow)
        missing == SelectSeq(ids, LAMBDA id : ~HasRow(id))
        b       == resp.body
    IN  /\ Len(b.models) = Len(found)
        /\ \A i \in 1..Len(found) : b.models[i] = RowOf(found[i])
        /\ b.not_found = missing
        /\ Len(b.models) + Len(b.not_found) = Len(ids)
        /\ \A k \in DOMAIN ids :
             (\E i \in DOMAIN b.models : b.models[i].model_id = ids[k])
               # (\E i \in DOMAIN b.not_found : b.not_found[i] = ids[k])
        /\ b.count = Len(b.models)

\* two ids requested in the opposite of the table's order, both found
BatchReversedWitness ==
  /\ Ok("get_multiple_models")
  /\ Len(models) = 2
  /\ resp.body.models = <<models[2], models[1]>>

\* the store answered the query of the request in resp
StoreAnswered == resp.status # 500 \/ resp.detail # <<"db error">>

\* C3: GET /model/{model_id} answers 404 "Model <model_id> not found" when
\* the table holds no row with that model_id, and the first matching row
\* when it holds one.
ModelNotFoundIs404 ==
  (resp.op = "get_model_info" /\ StoreAnswered) =>
    IF HasRow(resp.req.model_id)
    THEN resp.status = 200 /\ resp.body = RowOf(resp.req.model_id)
    ELSE /\ resp.status = 404
         /\ resp.detail = <<"Model ", resp.req.model_id, " not found">>

\* the rows a list response carries, and the query it paginates
IsList == Ok("list_models") \/ Ok("search_models") \/ Ok("list_hardware")

ListRows == IF resp.op = "list_hardware" THEN resp.body.hardware
            ELSE resp.body.models

ListQuery ==
  IF resp.op = "list_models" THEN ModelsQuery(models, resp.req.author)
  ELSE IF resp.op = "search_models"
       THEN SearchQuery(models, resp.req.q, resp.req.field)
       ELSE HardwareQuery(hardware, resp.req.type, resp.req.manufacturer,
                          resp.req.min_memory)

\* the response to the request in resp with its window moved to offset o
PageAt(o) ==
  IF resp.op = "list_models"
  THEN ListModelsResp(models, resp.req.author, resp.req.limit, o, TRUE).body.models
  ELSE IF resp.op = "search_models"
       THEN SearchModelsResp(models, resp.req.q, resp.req.field,
                             resp.req.limit, o, TRUE).body.models
       ELSE ListHardwareResp(hardware, resp.req.type, resp.req.manufacturer,
                             resp.req.min_memory, resp.req.limit, o, TRUE).body.hardware

\* rows is the part of all at 0-based positions o .. o+l-1
IsWindow(rows, all, o, l) ==
  /\ Len(rows) = Max(0, Min(l, Len(all) - o))
  /\ \A i \in 1..Len(rows) : rows[i] = all[o + i]

\* C4: a successful list_models, search_models or list_hardware returns the
\* rows at positions offset .. offset+limit-1 of the filtered result, at
\* most limit of them; count is their number; offset and limit are echoed;
\* the request for the following window returns the adjacent slice.
PaginationWindow ==
  IsList =>
    LET o == resp.req.offset
        l == resp.req.limit
    IN  /\ IsWindow(ListRows, ListQuery, o, l)
        /\ Len(ListRows) <= l
        /\ resp.body.count = Len(ListRows)
        /\ resp.body.offset = o /\ resp.body.limit = l
        /\ IsWindow(PageAt(o + l), ListQuery, o + l, l)
        /\ IsWindow(ListRows \o PageAt(o + l), ListQuery, o, 2 * l)

\* a page that starts after the first row and stops before the last
PaginationWitness ==
  /\ IsList
  /\ resp.req.offset = 1 /\ resp.req.limit = 1
  /\ Len(ListRows) = 1
  /\ Len(ListQuery) = 2

\* C7: a supplied filter is applied, whatever its value: min_memory = m
\* leaves only rows with memory >= m; type, manufacturer and author leave
\* only rows holding exactly that value.
SuppliedFiltersApplied ==
  /\ Ok("list_hardware") =>
       \A i \in DOMAIN resp.body.hardware :
         LET r == resp.body.hardware[i]
         IN  /\ resp.req.min_memory.some =>
                  r.memory.some /\ r.memory.val >= resp.req.min_memory.val
             /\ resp.req.type.some => r.type = resp.req.type.val
             /\ resp.req.manufacturer.some =>
                  r.manufacturer = Some(resp.req.manufacturer.val)
  /\ Ok("list_models") =>
       \A i \in DOMAIN resp.body.models :
         resp.req.author.some => resp.body.models[i].author = resp.req.author.val

LowerAll(s) == [i \in DOMAIN s |-> Lower(s[i])]

\* q occurs in s as a contiguous run, letter case ignored
ContainsIgnoreCase(s, q) ==
  \E k \in 0..(Len(s) - Len(q)) :
    \A i \in 1..Len(q) : Lower(s[k + i]) = Lower(q[i])

\* C8: GET /search returns the window of exactly those rows whose chosen
\* field contains q as a contiguous substring, letter case ignored, for
\* every q, '%' and '_' included.
SearchIsSubstringMatch ==
  Ok("search_models") =>
    IsWindow(resp.body.models,
             SelectSeq(models, LAMBDA r :
                         ContainsIgnoreCase(r[resp.req.field], resp.req.q)),
             resp.req.offset, resp.req.limit)

\* ================================================================ scraper
\* A url is a sequence of tokens: HF is the text "huggingface.co/", SCHEME
\* the text before it, "/" a slash and every other token one character.
HF     == "huggingface.co/"
SCHEME == "https:"

UrlPool ==
  { <<SCHEME, "/", "/", HF, "a", "b">>,
    <<SCHEME, "/", "/", HF, "z", "/">>,
    <<"/", "b">> }

\* what the model hub answers for one model: its metadata, or a failure
MetaPool ==
  { [author |-> Some(<<"m">>), downloads |-> Some(5), tagsAreStrings |-> TRUE],
    [author |-> None,          downloads |-> None,    tagsAreStrings |-> TRUE],
    [author |-> Some(<<"g">>), downloads |-> Some(0), tagsAreStrings |-> FALSE] }

FetchOutcomes == {"ok", "no_readme", "readme_raises", "meta_fails"}

DownloadValues == {0, 5}

\* url.split("huggingface.co/")[1]: the tokens between the first HF and the
\* next one
AfterFirstHF(url) ==
  LET i    == CHOOSE k \in DOMAIN url :
                url[k] = HF /\ \A j \in 1..(k - 1) : url[j] # HF
      rest == SubSeq(url, i + 1, Len(url))
  IN  IF \E k \in DOMAIN rest : rest[k] = HF
      THEN SubSeq(rest, 1, (CHOOSE k \in DOMAIN rest :
                              rest[k] = HF /\ \A j \in 1..(k - 1) : rest[j] # HF) - 1)
      ELSE rest

\* s.strip('/')
RECURSIVE LStrip(_)
LStrip(s) == IF s # <<>> /\ Head(s) = "/" THEN LStrip(Tail(s)) ELSE s

RECURSIVE RStrip(_)
RStrip(s) == IF s # <<>> /\ s[Len(s)] = "/"
             THEN RStrip(SubSeq(s, 1, Len(s) - 1)) ELSE s

Strip(s) == RStrip(LStrip(s))

ParseModelId(url) ==
  IF \E k \in DOMAIN url : url[k] = HF
  THEN Strip(AfterFirstHF(url))
  ELSE Strip(url)

\* ModelFetcher.get_model_info: None on any failure of the metadata or
\* README request, the metadata with the README text otherwise
FetchedInfo(id, outcome, meta) ==
  IF outcome \in {"meta_fails", "readme_raises"} THEN None
  ELSE Some([model_id |-> id, author |-> meta.author,
             downloads |-> meta.downloads,
             tagsAreStrings |-> meta.tagsAreStrings,
             readme |-> IF outcome = "ok" THEN "README text"
                        ELSE "No README available"])

\* str(x or 0) and int(s) on the download counts
StrOfCount(o) == IF o.some /\ o.val # 0 THEN ToString(o.val) ELSE ToString(0)
IntOf(s)      == CHOOSE n \in DownloadValues : ToString(n) = s

\* safe_data
SafeData(id, info) ==
  [model_id  |-> id,
   author    |-> IF info.author.some THEN info.author.val ELSE <<>>,
   downloads |-> StrOfCount(info.downloads),
   readme    |-> info.readme]

HeaderRow == [kind |-> "header"]
DataRow(safe_data) ==
  [kind |-> "data", model_id |-> safe_data.model_id,
   author |-> safe_data.author, downloads |-> safe_data.downloads,
   readme |-> safe_data.readme]
ErrorRow(id) == [kind |-> "error", model_id |-> id]

\* supabase_data (the columns the model keeps)
SupabaseData(model_data) ==
  [model_id  |-> model_data.model_id,
   author    |-> model_data.author,
   downloads |-> IntOf(model_data.downloads)]

\* Upsert as a plain insert: the conflict key is ignored
UpsertAppends(table, row) == Append(table, row)

\* .upsert(row, on_conflict='model_id')
Upsert(table, row) ==
  IF \E i \in DOMAIN table : table[i].model_id = row.model_id
  THEN [i \in DOMAIN table |->
          IF table[i].model_id = row.model_id THEN row ELSE table[i]]
  ELSE Append(table, row)

\* for url in urls: parse the id and fetch the model
FetchModel(outcome, meta) ==
  /\ pc = "loop" /\ idx <= Len(urls)
  /\ LET id == ParseModelId(urls[idx])
         mi == FetchedInfo(id, outcome, meta)
     IN  /\ model_id' = id
         /\ model_info' = mi
         /\ IF mi.some
            THEN pc' = "write" /\ idx' = idx
            ELSE pc' = "loop" /\ idx' = idx + 1
  /\ UNCHANGED <<urls, csv, upserted, storeVars, queryVars, audioVars>>

\* WriteRow with the data row never reaching the CSV
WriteRowSkipsCsv(ioOk) ==
  /\ pc = "write"
  /\ csv' = csv
  /\ pc' = IF model_info.val.tagsAreStrings /\ ioOk THEN "upsert" ELSE "except"
  /\ UNCHANGED <<urls, idx, model_id, model_info, upserted,
                 storeVars, queryVars, audioVars>>

\* format safe_data and write the row; joining tags that are not strings
\* raises, and so may the write itself
WriteRow(ioOk) ==
  /\ pc = "write"
  /\ IF model_info.val.tagsAreStrings /\ ioOk
     THEN /\ csv' = Append(csv, DataRow(SafeData(model_id, model_info.val)))
          /\ pc' = "upsert"
     ELSE /\ csv' = csv
          /\ pc' = "except"
  /\ UNCHANGED <<urls, idx, model_id, model_info, upserted,
                 storeVars, queryVars, audioVars>>

\* update_supabase(safe_data): its own try/except turns a failed upsert
\* into False, which the caller ignores
UpdateSupabase(storeOk) ==
  /\ pc = "upsert"
  /\ IF storeOk
     THEN /\ models' = Upsert(models, SupabaseData(SafeData(model_id, model_info.val)))
          /\ upserted' = upserted \cup {model_id}
     ELSE UNCHANGED <<models, upserted>>
  /\ pc' = "loop" /\ idx' = idx + 1
  /\ UNCHANGED <<urls, model_id, model_info, csv, hardware, queryVars, audioVars>>

\* except Exception: write the error row; a write that raises here is
\* caught by nothing and leaves create_models_csv
ExceptHandler(ioOk) ==
  /\ pc = "except"
  /\ IF ioOk
     THEN /\ csv' = Append(csv, ErrorRow(model_id))
          /\ pc' = "loop" /\ idx' = idx + 1
     ELSE /\ csv' = csv
          /\ pc' = "aborted" /\ idx' = idx
  /\ UNCHANGED <<urls, model_id, model_info, upserted,
                 storeVars, queryVars, audioVars>>

\* the loop is exhausted
Finish ==
  /\ pc = "loop" /\ idx > Len(urls)
  /\ pc' = "done"
  /\ UNCHANGED <<urls, idx, model_id, model_info, csv, upserted,
                 storeVars, queryVars, audioVars>>

\* create_models_csv(urls) has opened the file and written the header
ScraperStarted ==
  /\ urls \in SeqsUpTo(UrlPool, MaxUrls)
  /\ idx = 1 /\ pc = "loop" /\ model_id = <<>> /\ model_info = None
  /\ csv = <<HeaderRow>> /\ upserted = {}

ScraperInit ==
  /\ models \in ModelTables(MaxRows)
  /\ hardware = <<>>
  /\ resp = NoResp
  /\ ScraperStarted
  /\ AudioOff

ScraperNext ==
  \/ \E outcome \in FetchOutcomes, meta \in MetaPool : FetchModel(outcome, meta)
  \/ \E ioOk \in BOOLEAN : WriteRow(ioOk)
  \/ \E storeOk \in BOOLEAN : UpdateSupabase(storeOk)
  \/ \E ioOk \in BOOLEAN : ExceptHandler(ioOk)
  \/ Finish

ScraperSpec == ScraperInit /\ [][ScraperNext]_vars

\* ------------------------------------------------------- scraper: claims
CsvDataIds == {csv[i].model_id : i \in {j \in DOMAIN csv : csv[j].kind = "data"}}
TableIds   == {models[i].model_id : i \in DOMAIN models}

\* C2: no item's failure aborts the batch: the run never leaves the loop
\* early, and it ends only after the last url.
BatchRunsToCompletion ==
  /\ pc # "aborted"
  /\ pc = "done" => idx = Len(urls) + 1

\* C6 as claimed: when the run has finished, every model_id with a data row
\* in the CSV has a row in the models table, and every model_id the run
\* upserted has a data row in the CSV.
CsvAndStoreCorrespond ==
  pc = "done" => CsvDataIds \subseteq TableIds /\ upserted \subseteq CsvDataIds

\* C6 as amended: every model_id the run upserted has a data row in the CSV
\* and exactly one row in the models table, which holds the values of one
\* of that model's CSV data rows.
UpsertedHaveCsvAndTableRow ==
  \A m \in upserted :
    /\ m \in CsvDataIds
    /\ Cardinality({i \in DOMAIN models : models[i].model_id = m}) = 1
    /\ \E j \in DOMAIN csv :
         /\ csv[j].kind = "data" /\ csv[j].model_id = m
         /\ RowOf(m) = [model_id |-> m, author |-> csv[j].author,
                        downloads |-> IntOf(csv[j].downloads)]

\* a finished run that upserted one model and failed to upsert another
UpsertedAndFailedWitness ==
  /\ pc = "done"
  /\ upserted # {}
  /\ CsvDataIds \ upserted # {}

\* ====================================================== service and scraper
\* The query service answering requests while a scraper run writes to the
\* same store.
SharedHardware ==
  <<CHOOSE r \in HardwareRowPool : r.name = "h1">>

SharedInit ==
  /\ models \in ModelTables(MaxRows)
  /\ hardware = SharedHardware
  /\ resp = NoResp
  /\ urls \in SeqsUpTo(UrlPool, MaxSharedUrls)
  /\ idx = 1 /\ pc = "loop" /\ model_id = <<>> /\ model_info = None
  /\ csv = <<HeaderRow>> /\ upserted = {}
  /\ AudioOff

SharedIds == << <<"a", "b">>, <<"z">> >>

SharedRequests ==
  \/ ReadRoot
  \/ \E id \in IdPool : GetModelInfo(id, TRUE)
  \/ ListModels(None, MaxLimit, 0, TRUE)
  \/ SearchModels(<<>>, "model_id", MaxLimit, 0, TRUE)
  \/ GetMultipleModels(SharedIds, TRUE)
  \/ \E dbOk \in BOOLEAN : ListHardware(Some("GPU"), None, None, MaxLimit, 0, dbOk)
  \/ GetHardwareTypes(TRUE)
  \/ GetManufacturers(TRUE)

SharedNext == SharedRequests \/ ScraperNext

SharedSpec == SharedInit /\ [][SharedNext]_vars

\* C10: no request to the query service changes a table; the one step that
\* changes the models table is the scraper's upsert, which leaves the
\* hardware table alone and at most one row per model_id.
OnlyUpsertWrites ==
  [][ /\ resp' # resp => models' = models /\ hardware' = hardware
      /\ (models' # models \/ hardware' # hardware) =>
            /\ pc = "upsert"
            /\ hardware' = hardware
            /\ UniqueKey(models') ]_vars

\* the service answers for a model whose row the scraper has replaced
ServedAfterUpsertWitness ==
  /\ Ok("get_model_info")
  /\ resp.req.model_id \in upserted
  /\ Len(models) = MaxRows

\* ============================================================ audio server
ChunkSize == 1024 * 64

Remainders == {0, 1, ChunkSize \div 2, ChunkSize - 1}
FileSizes  == {k * ChunkSize + r : k \in 0..MaxFullChunks, r \in Remainders}

\* os.path.exists(AUDIO_FILE_PATH)
Exists == file.exists

\* open(AUDIO_FILE_PATH, "rb"): the handle keeps the content it was opened
\* on, whatever happens to the path afterwards
Open == [ver |-> file.ver, size |-> file.size, pos |-> 0]

\* FRead that returns nothing when fewer than n bytes are left
FReadDropsShortTail(h, n) ==
  [ver |-> h.ver, from |-> h.pos, len |-> IF h.size - h.pos >= n THEN n ELSE 0]

\* f.read(n): the next at most n bytes, as the range [from, from + len) of
\* the content; len = 0 at the end of the file
FRead(h, n) == [ver |-> h.ver, from |-> h.pos, len |-> Min(n, h.size - h.pos)]

AudioNotFound(op) ==
  [op |-> op, status |-> 404, content |-> "Audio file not found",
   outcome |-> "complete"]

\* GET /audio: the existence check
GetAudioCheck ==
  /\ apc = "idle"
  /\ chunks' = <<>>
  /\ IF ~Exists
     THEN aresp' = AudioNotFound("get_audio") /\ apc' = "idle"
     ELSE aresp' = [op |-> "get_audio", status |-> 0, outcome |-> "pending"]
          /\ apc' = "file_response"
  /\ UNCHANGED <<file, handle, storeVars, queryVars, scraperVars>>

\* GET /audio: FileResponse stats the file and sends it whole
GetAudioSend ==
  /\ apc = "file_response"
  /\ IF Exists
     THEN /\ aresp' = [op |-> "get_audio", status |-> 200, outcome |-> "complete"]
          /\ chunks' = <<[ver |-> file.ver, from |-> 0, len |-> file.size]>>
     ELSE /\ aresp' = [op |-> "get_audio", status |-> 500, outcome |-> "complete"]
          /\ chunks' = <<>>
  /\ apc' = "idle"
  /\ UNCHANGED <<file, handle, storeVars, queryVars, scraperVars>>

\* GET /stream_audio: the existence check; the handler returns the
\* StreamingResponse without having run audio_generator
StreamAudioCheck ==
  /\ apc = "idle"
  /\ chunks' = <<>>
  /\ IF ~Exists
     THEN aresp' = AudioNotFound("stream_audio") /\ apc' = "idle"
     ELSE aresp' = [op |-> "stream_audio", status |-> 0, outcome |-> "pending"]
          /\ apc' = "response_returned"
  /\ UNCHANGED <<file, handle, storeVars, queryVars, scraperVars>>

\* the 200 response is started and the first step of audio_generator opens
\* the file; a missing file raises after the status line has gone out
StreamOpen ==
  /\ apc = "response_returned"
  /\ IF Exists
     THEN /\ handle' = Some(Open)
          /\ aresp' = [op |-> "stream_audio", status |-> 200, outcome |-> "sending"]
          /\ apc' = "reading"
     ELSE /\ handle' = None
          /\ aresp' = [op |-> "stream_audio", status |-> 200, outcome |-> "aborted"]
          /\ apc' = "idle"
  /\ UNCHANGED <<file, chunks, storeVars, queryVars, scraperVars>>

\* while chunk := f.read(1024 * 64): yield chunk
StreamRead ==
  /\ apc = "reading"
  /\ LET chunk == FRead(handle.val, ChunkSize)
     IN  IF chunk.len # 0
         THEN /\ chunks' = Append(chunks, chunk)
              /\ handle' = Some([handle.val EXCEPT !.pos = @ + chunk.len])
              /\ UNCHANGED <<apc, aresp>>
         ELSE /\ handle' = None
              /\ aresp' = [aresp EXCEPT !.outcome = "complete"]
              /\ apc' = "idle"
              /\ UNCHANGED chunks
  /\ UNCHANGED <<file, storeVars, queryVars, scraperVars>>

\* the environment deletes the file
DeleteFile ==
  /\ file.exists
  /\ file' = [file EXCEPT !.exists = FALSE]
  /\ UNCHANGED <<apc, handle, chunks, aresp, storeVars, queryVars, scraperVars>>

\* the environment puts a new file at the path
ReplaceFile(size) ==
  /\ file.ver < MaxVersions
  /\ file' = [exists |-> TRUE, ver |-> file.ver + 1, size |-> size]
  /\ UNCHANGED <<apc, handle, chunks, aresp, storeVars, queryVars, scraperVars>>

StoreOff == models = <<>> /\ hardware = <<>> /\ resp = NoResp

AudioInit ==
  /\ \/ file = [exists |-> FALSE, ver |-> 1, size |-> 0]
     \/ \E s \in FileSizes : file = [exists |-> TRUE, ver |-> 1, size |-> s]
  /\ apc = "idle" /\ handle = None /\ chunks = <<>> /\ aresp = NoResp
  /\ StoreOff
  /\ ScraperOff

AudioServerNext ==
  \/ GetAudioCheck
  \/ GetAudioSend
  \/ StreamAudioCheck
  \/ StreamOpen
  \/ StreamRead

\* the server alone: nothing else touches the file
AudioSpec == AudioInit /\ [][AudioServerNext]_vars

AudioEnvNext ==
  \/ AudioServerNext
  \/ DeleteFile
  \/ \E s \in FileSizes : ReplaceFile(s)

\* the server next to an environment that deletes and replaces the file
AudioEnvSpec == AudioInit /\ [][AudioEnvNext]_vars

\* --------------------------------------------------------- audio: claims
AudioDone(op) == aresp.op = op /\ aresp.outcome = "complete"

\* the chunks are consecutive ranges of one content, starting at byte 0
Consecutive(cs) ==
  \A i \in DOMAIN cs :
    /\ cs[i].ver = cs[1].ver
    /\ cs[i].from = IF i = 1 THEN 0 ELSE cs[i - 1].from + cs[i - 1].len

RECURSIVE TotalLen(_)
TotalLen(cs) == IF cs = <<>> THEN 0 ELSE Head(cs).len + TotalLen(Tail(cs))

\* C5: both endpoints answer 404 "Audio file not found" exactly when the
\* file does not exist; a finished /stream_audio has yielded chunks whose
\* concatenation is the file, each non-empty, each but the last of exactly
\* 64KB, the last of at most 64KB.
ChunkedStreamIsTheFile ==
  /\ aresp.op \in {"get_audio", "stream_audio"} =>
       /\ aresp.status = 404 <=> ~file.exists
       /\ aresp.status = 404 => aresp = AudioNotFound(aresp.op) /\ chunks = <<>>
  /\ (AudioDone("stream_audio") /\ aresp.status = 200) =>
       /\ Consecutive(chunks)
       /\ TotalLen(chunks) = file.size
       /\ \A i \in DOMAIN chunks :
            /\ chunks[i].ver = file.ver
            /\ chunks[i].len > 0
            /\ chunks[i].len <= ChunkSize
            /\ i < Len(chunks) => chunks[i].len = ChunkSize
       /\ handle = None /\ apc = "idle"
  /\ (AudioDone("get_audio") /\ aresp.status = 200) =>
       chunks = <<[ver |-> file.ver, from |-> 0, len |-> file.size]>>

\* a finished stream of two full windows and a shorter last one
ShortLastChunkWitness ==
  /\ AudioDone("stream_audio") /\ aresp.status = 200
  /\ Len(chunks) = 3
  /\ chunks[3].len < ChunkSize

\* C9: under every interleaving with deletions and replacements of the
\* file, a /stream_audio request ends as a 404 or as a 200 with the whole
\* file as its body; a started 200 never loses its body.
StreamIs404OrWholeFile ==
  aresp.op = "stream_audio" =>
    /\ aresp.status \in {0, 404, 200}
    /\ aresp.status = 200 => aresp.outcome # "aborted"
    /\ (aresp.status = 200 /\ aresp.outcome = "complete") =>
         Consecutive(chunks) /\ \E s \in FileSizes : TotalLen(chunks) = s
====
